---- MODULE Spec2Model ----
(***************************************************************************)
(* Model of power_system_simulator.py: the pure function                   *)
(* calculate_power_factor, the RotaryDial drag handler and the             *)
(* PowerSystemSimulator handlers (mode buttons, dynamic-load timer,        *)
(* update_simulation, update_status, update_plot).                         *)
(*                                                                         *)
(* Numbers.  Python floats are modelled as fixed-point integers:           *)
(*   impedances, excitation current, dial values : units of 1/UNIT         *)
(*   voltage                                      : volts                   *)
(*   impedance magnitude, current, powers         : units of 1/MILLI       *)
(*   angles (radians and degrees), cos, sin, power factor : 1/MICRO        *)
(* TLC integers are 32 bits wide, so products are taken in parts.          *)
(***************************************************************************)
EXTENDS Integers, Sequences, FiniteSets

VARIABLES
  dial_value,            \* RotaryDial.value of the three dials, by dial
  voltage,               \* PowerSystemSimulator.voltage
  impedance_real,        \* PowerSystemSimulator.impedance_real
  impedance_imag,        \* PowerSystemSimulator.impedance_imag
  excitation_current,    \* PowerSystemSimulator.excitation_current
  power_factor_history,  \* PowerSystemSimulator.power_factor_history
  dynamic_mode,          \* PowerSystemSimulator.dynamic_mode
  pending_after,         \* callbacks scheduled with root.after and not yet run
  status_display,        \* advisory messages in the status text widget
  ax_pf_data,            \* the series last drawn on the power factor plot
  sample,                \* the values last returned to update_simulation
  last_event,            \* the handler that ran last
  fn                     \* last direct call of a pure function and its result

vars ==
  <<dial_value, voltage, impedance_real, impedance_imag, excitation_current,
    power_factor_history, dynamic_mode, pending_after, status_display,
    ax_pf_data, sample, last_event, fn>>

UNIT == 100
MILLI == 1000
MICRO == 1000000

Abs(x) == IF x < 0 THEN -x ELSE x
Sgn(x) == IF x > 0 THEN 1 ELSE IF x < 0 THEN -1 ELSE 0
Min(a, b) == IF a < b THEN a ELSE b
Max(a, b) == IF a > b THEN a ELSE b

(* a * b / MICRO rounded to the nearest integer, taken in parts of three   *)
(* digits so that no intermediate exceeds 32 bits (a up to 10^9, b up to    *)
(* 10^8 with a * b / MICRO below 2^31).                                     *)
MulMicro(a, b) ==
  LET ah == Abs(a) \div MILLI
      al == Abs(a) % MILLI
      bh == Abs(b) \div MILLI
      bl == Abs(b) % MILLI
      m == ah * bl + al * bh
      low == (m % MILLI) * MILLI + al * bl
  IN  Sgn(a) * Sgn(b)
        * (ah * bh + (m \div MILLI) + ((low + (MICRO \div 2)) \div MICRO))

(* n * 10^digits / d, truncated, by long division; 0 <= n, 0 < d < 2 * 10^8 *)
RECURSIVE LongDiv(_, _, _)
LongDiv(n, d, digits) ==
  IF digits = 0 THEN n \div d
  ELSE (n \div d) * (10 ^ digits) + LongDiv((n % d) * 10, d, digits - 1)

(* math.sqrt on a non-negative integer: the integer square root.           *)
RECURSIVE SqrtIter(_, _, _)
SqrtIter(n, lo, hi) ==
  IF hi - lo <= 1 THEN lo
  ELSE LET mid == (lo + hi) \div 2
       IN  IF mid * mid <= n THEN SqrtIter(n, mid, hi) ELSE SqrtIter(n, lo, mid)

Sqrt(n) == SqrtIter(n, 0, 46341)

PI == 3141593
HALF_PI == 1570796

(* atan(2^-i) in micro-radians, i = 0 .. 20.                                *)
AtanTable ==
  <<785398, 463648, 244979, 124355, 62419, 31240, 15624, 7812, 3906, 1953,
    977, 488, 244, 122, 61, 31, 15, 8, 4, 2, 1>>

Pow2(i) == 2 ^ i

(* CORDIC vectoring for x > 0: rotates (x, y) onto the x axis and returns   *)
(* the angle turned; it stops as soon as y is exactly 0.                    *)
RECURSIVE Cordic(_, _, _, _)
Cordic(x, y, z, i) ==
  IF y = 0 \/ i > Len(AtanTable) - 1 THEN z
  ELSE LET sx == x \div Pow2(i)
           sy == Abs(y) \div Pow2(i)
       IN  IF y > 0
           THEN Cordic(x + sy, y - sx, z + AtanTable[i + 1], i + 1)
           ELSE Cordic(x + sy, y + sx, z - AtanTable[i + 1], i + 1)

PRESCALE == 262144

(* math.atan2(y, x) in micro-radians, in (-PI, PI]; atan2(0, 0) = 0.        *)
Atan2(y, x) ==
  IF x > 0 THEN Cordic(x * PRESCALE, y * PRESCALE, 0, 0)
  ELSE IF x = 0 THEN (IF y > 0 THEN HALF_PI ELSE IF y < 0 THEN -HALF_PI ELSE 0)
  ELSE IF y >= 0 THEN PI - Cordic((-x) * PRESCALE, y * PRESCALE, 0, 0)
  ELSE -PI - Cordic((-x) * PRESCALE, y * PRESCALE, 0, 0)

(* math.degrees multiplies by 180 / pi, math.radians by pi / 180.          *)
RAD_TO_DEG == 57295780
Degrees(rad) == MulMicro(rad, RAD_TO_DEG)
Radians(deg) ==
  Sgn(deg) * (MulMicro(Abs(deg) \div 180, PI)
              + ((Abs(deg) % 180) * PI + 90 * MICRO) \div (180 * MICRO))

(* x / d rounded to the nearest integer, d > 0.                             *)
DivRound(x, d) == Sgn(x) * ((Abs(x) + (d \div 2)) \div d)

(* The alternating Taylor series term - term * th2 / (k (k + 1)) + ...,     *)
(* th2 the square of the angle, summed until the terms vanish.              *)
RECURSIVE Series(_, _, _, _)
Series(acc, term, th2, k) ==
  IF term = 0 THEN acc
  ELSE Series(acc + term, -DivRound(MulMicro(term, th2), k * (k + 1)), th2,
              k + 2)

(* math.cos / math.sin of an angle in micro-radians, |theta| <= PI; the     *)
(* results lie in [-1, 1].                                                  *)
Cos(theta) ==
  Max(-MICRO, Min(MICRO, Series(0, MICRO, MulMicro(theta, theta), 1)))
Sin(theta) ==
  Max(-MICRO, Min(MICRO, Series(0, theta, MulMicro(theta, theta), 2)))

(***************************************************************************)
(* calculate_power_factor                                                  *)
(***************************************************************************)

(* impedance_imag - excitation_current * 2                                  *)
CompensatedImagNoFactor(imp_imag, exc) == imp_imag - exc

CompensatedImag(imp_imag, exc) == imp_imag - exc * 2

(* The guards of the two divisions.                                        *)
MagnitudeGuardNonStrict(impedance_magnitude) == impedance_magnitude >= 0

MagnitudeGuard(impedance_magnitude) == impedance_magnitude > 0
ApparentGuard(apparent_power) == apparent_power > 0

(* max(0, min(power_factor, 1)) on micro-units.                             *)
Clamp01NoLowerBound(power_factor) == Min(power_factor, MICRO)

Clamp01(power_factor) == Max(0, Min(power_factor, MICRO))

(* The locals of calculate_power_factor; the function returns current,      *)
(* power_factor, angle, real_power, apparent_power and reactive_power.      *)
(* error is TRUE when a division by zero is executed.                       *)
calculate_power_factor(v, imp_real, imp_imag, exc) ==
  LET compensated_impedance_imag == CompensatedImag(imp_imag, exc)
      toMilli == MILLI \div UNIT
      impedance_magnitude ==
        Sqrt((imp_real * toMilli) * (imp_real * toMilli)
             + (compensated_impedance_imag * toMilli)
               * (compensated_impedance_imag * toMilli))
      divides1 == MagnitudeGuard(impedance_magnitude)
      current ==
        IF divides1 /\ impedance_magnitude # 0
        THEN (v * MICRO) \div impedance_magnitude ELSE 0
      angle == Degrees(Atan2(compensated_impedance_imag, imp_real))
      apparent_power == v * current
      real_power == MulMicro(apparent_power, Cos(Radians(angle)))
      reactive_power == MulMicro(apparent_power, Sin(Radians(angle)))
      divides2 == ApparentGuard(apparent_power)
      raw_power_factor ==
        IF divides2 /\ apparent_power # 0
        THEN Sgn(real_power) * LongDiv(Abs(real_power), apparent_power, 6)
        ELSE 0
  IN  [current |-> current,
       power_factor |-> Clamp01(raw_power_factor),
       angle |-> angle,
       real_power |-> real_power,
       apparent_power |-> apparent_power,
       reactive_power |-> reactive_power,
       compensated_impedance_imag |-> compensated_impedance_imag,
       impedance_magnitude |-> impedance_magnitude,
       raw_power_factor |-> raw_power_factor,
       error |-> (divides1 /\ impedance_magnitude = 0)
                 \/ (divides2 /\ apparent_power = 0)]

(* The sample before any call.                                              *)
NoSample ==
  [current |-> 0, power_factor |-> 0, angle |-> 0, real_power |-> 0,
   apparent_power |-> 0, reactive_power |-> 0,
   compensated_impedance_imag |-> 0, impedance_magnitude |-> 0,
   raw_power_factor |-> 0, error |-> FALSE]

(***************************************************************************)
(* update_status: the advisory messages inserted after the readings         *)
(***************************************************************************)

PF_LOW == 950000
PF_HIGH == 980000

update_statusInclusiveLow(power_factor, reactive_power) ==
  IF power_factor <= PF_LOW
  THEN IF reactive_power > 0 THEN <<"LaggingLow">>
       ELSE IF reactive_power < 0 THEN <<"LeadingLow">>
       ELSE <<>>
  ELSE IF power_factor > PF_HIGH THEN <<"HighPF">>
  ELSE IF PF_LOW <= power_factor /\ power_factor <= PF_HIGH THEN <<"Stable">>
  ELSE <<>>

update_statusNoLeading(power_factor, reactive_power) ==
  IF power_factor < PF_LOW
  THEN IF reactive_power > 0 THEN <<"LaggingLow">> ELSE <<>>
  ELSE IF power_factor > PF_HIGH THEN <<"HighPF">>
  ELSE IF PF_LOW <= power_factor /\ power_factor <= PF_HIGH THEN <<"Stable">>
  ELSE <<>>

update_status(power_factor, reactive_power) ==
  IF power_factor < PF_LOW
  THEN IF reactive_power > 0 THEN <<"LaggingLow">>
       ELSE IF reactive_power < 0 THEN <<"LeadingLow">>
       ELSE <<>>
  ELSE IF power_factor > PF_HIGH THEN <<"HighPF">>
  ELSE IF PF_LOW <= power_factor /\ power_factor <= PF_HIGH THEN <<"Stable">>
  ELSE <<>>

(***************************************************************************)
(* RotaryDial                                                              *)
(***************************************************************************)

Dials == {"real", "imag", "excitation"}

(* min_val, max_val and step of the three dials built by setup_ui.          *)
MinVal(d) == IF d = "excitation" THEN 0 * UNIT ELSE 1 * UNIT
MaxVal(d) == IF d = "excitation" THEN 10 * UNIT ELSE 20 * UNIT
Step(d) == UNIT \div 2

CENTER == 100

(* Python's round(n / d): to the nearest integer, ties to even; n >= 0.     *)
Round(n, d) ==
  LET q == n \div d
      r == n % d
  IN  IF 2 * r > d \/ (2 * r = d /\ q % 2 = 1) THEN q + 1 ELSE q

(* The value on_drag stores for a pointer event at canvas position (x, y).  *)
on_drag(d, x, y) ==
  LET dx == x - CENTER
      dy == y - CENTER
      angle == Atan2(dy, dx)
      degrees == (Degrees(angle) + 450 * MICRO) % (360 * MICRO)
      raw_value ==
        MinVal(d) * MILLI
        + MulMicro((MaxVal(d) - MinVal(d)) * MILLI, degrees \div 360)
      value == Round(raw_value, Step(d) * MILLI) * Step(d)
  IN  Max(MinVal(d), Min(MaxVal(d), value))

(***************************************************************************)
(* PowerSystemSimulator                                                    *)
(***************************************************************************)

MaxHistory == 3

(* Pointer positions of the drag events explored: the top of the dial      *)
(* (min_val), its right (a quarter turn) and just left of the top           *)
(* (max_val).                                                               *)
DragPoints == {<<100, 30>>, <<170, 100>>, <<99, 30>>}

update_simulationPlotFirst(dv) ==
  /\ impedance_real' = dv["real"]
  /\ impedance_imag' = dv["imag"]
  /\ excitation_current' = dv["excitation"]
  /\ sample' = calculate_power_factor(voltage, impedance_real',
                                      impedance_imag', excitation_current')
  /\ status_display' =
       update_status(sample'.power_factor, sample'.reactive_power)
  /\ ax_pf_data' = power_factor_history
  /\ power_factor_history' =
       Append(power_factor_history, sample'.power_factor)

(* update_simulation, reading the dial values dv: copies them to the        *)
(* parameters, computes, appends to the history, then update_status and     *)
(* update_plot (which draws the history as it is then).                     *)
update_simulation(dv) ==
  /\ impedance_real' = dv["real"]
  /\ impedance_imag' = dv["imag"]
  /\ excitation_current' = dv["excitation"]
  /\ sample' = calculate_power_factor(voltage, impedance_real',
                                      impedance_imag', excitation_current')
  /\ power_factor_history' =
       Append(power_factor_history, sample'.power_factor)
  /\ status_display' =
       update_status(sample'.power_factor, sample'.reactive_power)
  /\ ax_pf_data' = power_factor_history'

(* value * random.uniform(0.95, 1.05): the results explored are the least   *)
(* and the greatest representable value inside the interval.                *)
Perturbed(value) ==
  {(95 * value + 99) \div 100, (105 * value - 1) \div 100}

simulate_dynamic_loadNoFlagCheck(mode, pending) ==
  \E r \in Perturbed(dial_value["real"]),
     i \in Perturbed(dial_value["imag"]) :
    LET dv == [dial_value EXCEPT !["real"] = r, !["imag"] = i]
    IN  /\ Len(power_factor_history) < MaxHistory
        /\ dial_value' = dv
        /\ update_simulation(dv)
        /\ pending_after' = pending + 1

(* simulate_dynamic_load when self.dynamic_mode reads mode and the          *)
(* scheduler holds pending callbacks besides the one running.               *)
simulate_dynamic_load(mode, pending) ==
  IF mode
  THEN \E r \in Perturbed(dial_value["real"]),
          i \in Perturbed(dial_value["imag"]) :
         LET dv == [dial_value EXCEPT !["real"] = r, !["imag"] = i]
         IN  /\ Len(power_factor_history) < MaxHistory
             /\ dial_value' = dv
             /\ update_simulation(dv)
             /\ pending_after' = pending + 1
  ELSE /\ pending_after' = pending
       /\ UNCHANGED <<dial_value, impedance_real, impedance_imag,
                      excitation_current, sample, power_factor_history,
                      status_display, ax_pf_data>>

(* <B1-Motion> on a dial: on_drag, then the callback update_simulation.     *)
Drag(d, p) ==
  LET dv == [dial_value EXCEPT ![d] = on_drag(d, p[1], p[2])]
  IN  /\ Len(power_factor_history) < MaxHistory
      /\ dial_value' = dv
      /\ update_simulation(dv)
      /\ last_event' = "drag"
      /\ UNCHANGED <<voltage, dynamic_mode, pending_after, fn>>

set_static_modeRecomputes ==
  /\ dynamic_mode' = FALSE
  /\ Len(power_factor_history) < MaxHistory
  /\ update_simulation(dial_value)
  /\ last_event' = "static"
  /\ UNCHANGED <<dial_value, voltage, pending_after, fn>>

(* The Static Mode button.                                                  *)
set_static_mode ==
  /\ dynamic_mode' = FALSE
  /\ last_event' = "static"
  /\ UNCHANGED <<dial_value, voltage, impedance_real, impedance_imag,
                 excitation_current, power_factor_history, pending_after,
                 status_display, ax_pf_data, sample, fn>>

(* The Dynamic Mode button.                                                 *)
set_dynamic_mode ==
  /\ dynamic_mode' = TRUE
  /\ simulate_dynamic_load(TRUE, pending_after)
  /\ last_event' = "dynamic"
  /\ UNCHANGED <<voltage, fn>>

(* A callback scheduled by root.after(2000, ...) runs.                      *)
Tick ==
  /\ pending_after > 0
  /\ simulate_dynamic_load(dynamic_mode, pending_after - 1)
  /\ last_event' = "tick"
  /\ UNCHANGED <<voltage, dynamic_mode, fn>>

NoCall ==
  [op |-> "none", voltage |-> 0, impedance_real |-> 0, impedance_imag |-> 0,
   excitation_current |-> 0, power_factor |-> 0, reactive_power |-> 0,
   sample |-> NoSample, advisory |-> <<>>]

(* PowerSystemSimulator.__init__ and the dials' initial values.             *)
Init ==
  /\ voltage = 230
  /\ impedance_real = 5 * UNIT
  /\ impedance_imag = 5 * UNIT
  /\ excitation_current = 0
  /\ power_factor_history = <<>>
  /\ dynamic_mode = FALSE
  /\ dial_value = [d \in Dials |->
                     IF d = "excitation" THEN 0 ELSE 5 * UNIT]
  /\ pending_after = 0
  /\ status_display = <<>>
  /\ ax_pf_data = <<>>
  /\ sample = NoSample
  /\ last_event = "init"
  /\ fn = NoCall

Next ==
  \/ \E d \in Dials, p \in DragPoints : Drag(d, p)
  \/ set_static_mode
  \/ set_dynamic_mode
  \/ Tick

Spec == Init /\ [][Next]_vars

(***************************************************************************)
(* The pure functions called directly on sampled arguments                  *)
(***************************************************************************)

Voltages == {0, 115, 230}
RealImpedances == {-500, 0, 100, 500, 2000}
ImagImpedances == {0, 100, 500, 2000}
ExcitationCurrents == {0, 50, 250, 500, 1000}
PowerFactors ==
  {0, PF_LOW - 1, PF_LOW, PF_LOW + 1, 965000, PF_HIGH - 1, PF_HIGH,
   PF_HIGH + 1, MICRO}
ReactivePowers == {-5290008, -1, 0, 1, 5290008}

SimVars ==
  <<dial_value, voltage, impedance_real, impedance_imag, excitation_current,
    power_factor_history, dynamic_mode, pending_after, status_display,
    ax_pf_data, sample, last_event>>

Compute ==
  \E v \in Voltages, r \in RealImpedances, i \in ImagImpedances,
     e \in ExcitationCurrents :
    /\ fn' = [NoCall EXCEPT !.op = "compute", !.voltage = v,
                !.impedance_real = r, !.impedance_imag = i,
                !.excitation_current = e,
                !.sample = calculate_power_factor(v, r, i, e)]
    /\ UNCHANGED SimVars

Classify ==
  \E pf \in PowerFactors, q \in ReactivePowers :
    /\ fn' = [NoCall EXCEPT !.op = "classify", !.power_factor = pf,
                !.reactive_power = q, !.advisory = update_status(pf, q)]
    /\ UNCHANGED SimVars

NextFn == Compute \/ Classify

SpecFn == Init /\ [][NextFn]_vars

(***************************************************************************)
(* Properties                                                              *)
(***************************************************************************)

Called(op) == fn.op = op

C2_AdvisoryTable ==
  Called("classify") =>
    LET pf == fn.power_factor
        q == fn.reactive_power
        m == fn.advisory
    IN  /\ Len(m) <= 1
        /\ (pf < PF_LOW /\ q > 0) => m = <<"LaggingLow">>
        /\ (pf < PF_LOW /\ q < 0) => m = <<"LeadingLow">>
        /\ (pf < PF_LOW /\ q = 0) => m = <<>>
        /\ pf > PF_HIGH => m = <<"HighPF">>
        /\ (PF_LOW <= pf /\ pf <= PF_HIGH) => m = <<"Stable">>

(* C2 witness: the lower boundary 0.95 itself is classified Stable.         *)
C2_Witness ==
  /\ Called("classify")
  /\ fn.power_factor = PF_LOW
  /\ fn.reactive_power > 0
  /\ fn.advisory = <<"Stable">>

(* A step that ran update_simulation: a drag, a Dynamic Mode press or a     *)
(* timer callback that found dynamic_mode set.                              *)
Recomputes ==
  \/ last_event' \in {"drag", "dynamic"}
  \/ last_event' = "tick" /\ dynamic_mode

(* C3: the history starts empty; every recomputation appends exactly the    *)
(* power factor just computed, before the plot is drawn; every other step   *)
(* leaves the history as it is.                                             *)
C3_HistoryAppendOnly ==
  /\ power_factor_history = <<>>
  /\ [][/\ Recomputes =>
             /\ power_factor_history' =
                  Append(power_factor_history,
                         calculate_power_factor(
                           voltage', impedance_real', impedance_imag',
                           excitation_current').power_factor)
             /\ ax_pf_data' = power_factor_history'
        /\ ~Recomputes => power_factor_history' = power_factor_history
       ]_vars

(* C3 witness: a timer-driven recomputation has appended a second value     *)
(* and the plot shows it.                                                   *)
C3_Witness ==
  /\ last_event = "tick"
  /\ dynamic_mode
  /\ Len(power_factor_history) >= 2
  /\ ax_pf_data = power_factor_history

InRange(x, lo, hi) == lo <= x /\ x <= hi

(* C4: the circuit parameters stay inside their domains: both impedances    *)
(* in [1, 20], the excitation current in [0, 10].                           *)
C4_ParametersInDomain ==
  /\ InRange(impedance_real, 1 * UNIT, 20 * UNIT)
  /\ InRange(impedance_imag, 1 * UNIT, 20 * UNIT)
  /\ InRange(excitation_current, 0, 10 * UNIT)
  /\ InRange(dial_value["real"], 1 * UNIT, 20 * UNIT)
  /\ InRange(dial_value["imag"], 1 * UNIT, 20 * UNIT)
  /\ InRange(dial_value["excitation"], 0, 10 * UNIT)

(* new is old times a factor in [0.95, 1.05].                               *)
IsPerturbationOf(new, old) ==
  95 * old <= 100 * new /\ 100 * new <= 105 * old

(* C5: a timer callback reads dynamic_mode first: when set it perturbs the  *)
(* two impedance dials, recomputes (one history value) and schedules one    *)
(* next callback; when clear it does none of these and schedules nothing.   *)
C5_TickChecksFlag ==
  [][last_event' = "tick" =>
       IF dynamic_mode
       THEN /\ IsPerturbationOf(dial_value'["real"], dial_value["real"])
            /\ IsPerturbationOf(dial_value'["imag"], dial_value["imag"])
            /\ impedance_real' = dial_value'["real"]
            /\ impedance_imag' = dial_value'["imag"]
            /\ Len(power_factor_history') = Len(power_factor_history) + 1
            /\ pending_after' = pending_after
       ELSE /\ pending_after' = pending_after - 1
            /\ UNCHANGED <<dial_value, impedance_real, impedance_imag,
                           power_factor_history, ax_pf_data, status_display,
                           sample>>
    ]_vars

(* C5 witness: after a chain ran, a callback found the flag clear and       *)
(* nothing is scheduled any more.                                           *)
C5_Witness ==
  /\ last_event = "tick"
  /\ ~dynamic_mode
  /\ pending_after = 0
  /\ Len(power_factor_history) >= 1

C7_SignCrossing ==
  (Called("compute") /\ fn.voltage > 0 /\ fn.impedance_real > 0) =>
    LET s == fn.sample
        x == s.compensated_impedance_imag
        e == fn.excitation_current
    IN  /\ \A e2 \in ExcitationCurrents :
             e2 > e =>
               calculate_power_factor(fn.voltage, fn.impedance_real,
                                      fn.impedance_imag, e2)
                 .compensated_impedance_imag < x
        /\ Sgn(s.angle) = Sgn(x)
        /\ Sgn(s.reactive_power) = Sgn(x)
        /\ 2 * e < fn.impedance_imag => (s.angle > 0 /\ s.reactive_power > 0)
        /\ 2 * e > fn.impedance_imag => (s.angle < 0 /\ s.reactive_power < 0)
        /\ 2 * e = fn.impedance_imag =>
             /\ s.angle = 0
             /\ s.reactive_power = 0
             /\ s.power_factor = MICRO
             /\ update_status(s.power_factor, s.reactive_power)
                  = <<"HighPF">>

(* C7 witness: the crossing point itself, excitation 2.5 on imaginary 5.    *)
C7_Witness ==
  /\ Called("compute")
  /\ fn.voltage > 0
  /\ fn.impedance_real > 0
  /\ fn.excitation_current > 0
  /\ 2 * fn.excitation_current = fn.impedance_imag
  /\ fn.sample.power_factor = MICRO

(* C8: at most one dynamic-mode callback is pending in the scheduler.       *)
C8_AtMostOnePendingTick == pending_after <= 1

(* C9: the voltage stays 230; a timer callback that finds dynamic_mode set  *)
(* changes neither the excitation current nor the flag; Static Mode changes *)
(* only the flag; a callback that finds the flag clear changes nothing.     *)
C9_FrameConditions ==
  /\ voltage = 230
  /\ [][/\ voltage' = 230
        /\ (last_event' = "tick" /\ dynamic_mode) =>
             /\ excitation_current' = excitation_current
             /\ dial_value'["excitation"] = dial_value["excitation"]
             /\ dynamic_mode' = dynamic_mode
        /\ last_event' = "static" =>
             /\ dynamic_mode' = FALSE
             /\ UNCHANGED <<dial_value, voltage, impedance_real,
                            impedance_imag, excitation_current,
                            power_factor_history, pending_after,
                            status_display, ax_pf_data, sample>>
        /\ (last_event' = "tick" /\ ~dynamic_mode) =>
             UNCHANGED <<dial_value, voltage, impedance_real, impedance_imag,
                         excitation_current, power_factor_history,
                         dynamic_mode, status_display, ax_pf_data, sample>>
       ]_vars

(* C9 witness: Static Mode pressed while a callback is pending and after    *)
(* values were recorded.                                                    *)
C9_Witness ==
  /\ last_event = "static"
  /\ ~dynamic_mode
  /\ pending_after >= 1
  /\ Len(power_factor_history) >= 1

(* C10: in the running simulator a sample with reactive power 0 has power   *)
(* factor 1, so the "no message" case never occurs: every recomputation     *)
(* shows exactly one advisory message.                                      *)
C10_AlwaysOneAdvisory ==
  Len(power_factor_history) >= 1 =>
    /\ sample.reactive_power = 0 => sample.power_factor = MICRO
    /\ ~(sample.power_factor < PF_LOW /\ sample.reactive_power = 0)
    /\ Len(status_display) = 1
    /\ status_display[1] \in {"LaggingLow", "LeadingLow", "HighPF", "Stable"}

(* C10 witness: a recomputation with reactive power 0 shows HighPF.         *)
C10_Witness ==
  /\ Len(power_factor_history) >= 1
  /\ sample.reactive_power = 0
  /\ status_display = <<"HighPF">>

====
